---- MODULE Spec2Model ----
(***************************************************************************)
(* Video lifecycle of the VidioX API server (backend/api/server.js):       *)
(* upload + dispatch to the encoding Engine, the on-demand status query,   *)
(* the background Poller (checkProcessingJobs), metadata update and        *)
(* delete, over one MongoDB collection accessed through Mongoose.          *)
(*                                                                         *)
(* A handler is split at its awaits: everything between two awaits runs    *)
(* atomically on Node's single thread, and the awaited operation (a        *)
(* database write, an Engine call) takes effect in the action that         *)
(* resumes the handler.                                                    *)
(*                                                                         *)
(* Mongoose's document.save() of a loaded document sends an update of the  *)
(* paths modified in memory only, filtered by the document's key; when an  *)
(* array path is replaced the filter also carries the version key __v and  *)
(* the update increments it; an update that matches no document makes      *)
(* save() throw.  Any database operation may also fail on its own.         *)
(***************************************************************************)
EXTENDS Integers, Sequences, FiniteSets, TLC

\* ------------------------------------------------------------------ bounds
MaxVideos == 2      \* upload requests (one fresh uuid each)
MaxTime == 2        \* the clock reads 0..MaxTime
MaxFiles == 2       \* longest encoded_files list of an Engine payload
MaxRequests == 3    \* requests and Poller ticks taken in
MaxPath == 5        \* longest file path, in characters, tried exhaustively

IDs == 1..MaxVideos
Queries == {"q1"}               \* concurrent on-demand status requests
Sweeps == {"s1", "s2"}          \* overlapping runs of checkProcessingJobs

\* ------------------------------------------------------------ video record
\* An optional value is <<>> (undefined) or <<v>>.
Unset == <<>>
IsSet(x) == x # <<>>

Fields == {"title", "description", "status", "jobId", "thumbnail", "duration",
           "formats", "videoInfo", "createdAt", "updatedAt", "v"}

Statuses == {"uploading", "processing", "ready", "error"}

\* Variant: updatedAt has no default of its own and starts at the epoch.
videoSchema_UpdatedAtEpoch(title, description, t) ==
    [title |-> title, description |-> description, status |-> "uploading",
     jobId |-> Unset, thumbnail |-> Unset, duration |-> Unset,
     formats |-> <<>>, videoInfo |-> Unset,
     createdAt |-> t, updatedAt |-> 0, v |-> 0]

\* new Video({id, title, description, originalFilename, status:'uploading'})
\* with the schema defaults (createdAt, updatedAt: Date.now; formats: []).
videoSchema(title, description, t) ==
    [title |-> title, description |-> description, status |-> "uploading",
     jobId |-> Unset, thumbnail |-> Unset, duration |-> Unset,
     formats |-> <<>>, videoInfo |-> Unset,
     createdAt |-> t, updatedAt |-> t, v |-> 0]

NoVideo == videoSchema("", "", 0)

\* A Mongoose document in a handler's memory: its values and modified paths.
NoDoc == [video |-> NoVideo, modified |-> {}]

\* doc.path = val : the path is marked modified when the value changes.
Assign(d, f, val) ==
    [video |-> [d.video EXCEPT ![f] = val],
     modified |-> d.modified \cup (IF d.video[f] # val THEN {f} ELSE {})]

\* ------------------------------------------------------------- the Engine
\* Status response of the Engine for one job:
\*   { status: "processing"|"completed"|"error", data?: {...} }
EncodedFile(i) ==
    [quality |-> <<"quality", i>>, url |-> <<"url", i>>, size |-> 1000 * i,
     bitrate |-> 100 * i, path |-> <<"path", i>>]

EncodedFiles(n) == [i \in 1..n |-> EncodedFile(i)]

JobData(n) ==
    [encoded_files |-> EncodedFiles(n), thumbnail_url |-> "thumb",
     duration |-> 120,
     video_info |-> [width |-> 1280, height |-> 720, codec |-> "h264", fps |-> 30]]

JobRunning == [status |-> "processing", data |-> Unset]
JobError == [status |-> "error", data |-> Unset]
JobCompleted(n) == [status |-> "completed", data |-> <<JobData(n)>>]
JobCompletedNoData == [status |-> "completed", data |-> Unset]

JobOutcomes ==
    {JobError, JobCompletedNoData, JobCompleted(0), JobCompleted(MaxFiles)}

\* A job for which the Engine accepts status queries and never answers them.
JobHung == [status |-> "no answer", data |-> Unset]

VARIABLES
    videos,     \* the collection: video id -> persisted record
    files,      \* upload requests whose temporary file is on disk
    unlinks,    \* upload request -> number of fs.unlinkSync calls made
    jobs,       \* Engine: job id -> status response
    now,        \* the clock
    applied,    \* video id -> number of reconcile writes that updated it
    requests,   \* number of requests and Poller ticks taken in so far
    up,         \* upload request -> handler state
    qs,         \* on-demand status request -> handler state
    sw,         \* Poller sweep -> handler state
    put,        \* metadata update request: handler state
    del,        \* delete request: handler state
    env,        \* storage layer: the process.env entries that are set
    objects,    \* Provider A (S3): the <<bucket, key>> pairs stored
    assets,     \* Provider B (Cloudinary): the public ids stored
    op          \* storage layer: the call of uploadFile or deleteFile

\* The storage layer (storage.js); server.js never calls it.
storage == <<env, objects, assets, op>>

vars == <<videos, files, unlinks, jobs, now, applied, requests, up, qs, sw, put,
          del, storage>>

\* ------------------------------------------------------------ persistence
\* Variant: the whole document in memory is written back.
SaveResult_FullDocument(id, d) ==
    [f \in Fields |->
        IF f = "v" /\ "formats" \in d.modified THEN videos[id].v + 1
        ELSE d.video[f]]

\* The update document.save() sends: the modified paths, and the version
\* increment when the array path formats is replaced.
SaveResult(id, d) ==
    [f \in Fields |->
        IF f = "v" /\ "formats" \in d.modified THEN videos[id].v + 1
        ELSE IF f \in d.modified THEN d.video[f]
        ELSE videos[id][f]]

\* The filter of that update matches a persisted document.
SaveMatches(id, d) ==
    /\ id \in DOMAIN videos
    /\ "formats" \in d.modified => videos[id].v = d.video.v

\* The document in memory after a successful save.
Saved(d) ==
    [video |-> IF "formats" \in d.modified
               THEN [d.video EXCEPT !.v = @ + 1] ELSE d.video,
     modified |-> {}]

\* ------------------------------------------------------ the storage layer
\* The process.env entries the storage layer tests: set (TRUE) or not.
Envs ==
    [AWS_ACCESS_KEY_ID : BOOLEAN, S3_BUCKET : BOOLEAN,
     CLOUDINARY_CLOUD_NAME : BOOLEAN]

NoEnv ==
    [AWS_ACCESS_KEY_ID |-> FALSE, S3_BUCKET |-> FALSE,
     CLOUDINARY_CLOUD_NAME |-> FALSE]

\* Storage keys / public ids, and the values of options.bucket: not given
\* (undefined), another bucket's name, or the empty string.
Keys == {"k1", "k2"}
BucketOptions == {Unset, <<"other">>, <<"">>}

\* A call of the storage layer before it is made: the function called (fn),
\* its key and bucket, its file path as a sequence of characters (path), the
\* provider function it delegated to (delegated), the SDK calls it made with
\* their outcomes (calls), the results array of deleteFile (results) and the
\* value it returned (result).
NoCall ==
    [pc |-> "idle", fn |-> "none", key |-> "none", bucket |-> Unset, path |-> <<>>,
     delegated |-> <<>>, calls |-> <<>>, results |-> <<>>, result |-> Unset]

\* A status request before findOne.  Once answered it keeps what it loaded
\* (loaded), whether it queried the Engine (called), whether its save updated
\* the record (wrote), whether its Engine query failed (failed), the status it
\* answered (resp) and the status persisted when it answered (persisted).
QueryIdle ==
    [pc |-> "idle", id |-> 0, doc |-> NoDoc, loaded |-> "none",
     called |-> FALSE, failed |-> FALSE, wrote |-> FALSE, resp |-> "none",
     persisted |-> "none"]

\* An upload request before it arrives.  It keeps the number of axios.post
\* calls it made (posts), how the submission ended (posted), the job id the
\* Engine returned (job), the response (resp) and the status persisted when
\* it answered (persisted).
UploadIdle ==
    [pc |-> "idle", doc |-> NoDoc, posts |-> 0, posted |-> "no", job |-> Unset,
     resp |-> "none", persisted |-> "none"]

\* A metadata update request before findOne.  Once answered it keeps the
\* document it loaded and changed (doc) and whether its save updated the
\* record (wrote).
PutIdle == [pc |-> "idle", id |-> 0, doc |-> NoDoc, wrote |-> FALSE]

\* A delete request before findOne.  Once answered it keeps the id asked for
\* and the response (resp).
DeleteIdle == [pc |-> "idle", id |-> 0, resp |-> "none"]

\* A run of checkProcessingJobs before it starts: the documents it has still
\* to handle (docs), and whether its latest Engine query failed (failed).
SweepIdle == [pc |-> "idle", docs |-> <<>>, failed |-> FALSE]

\* The persisted status of a video, "none" without a record.
Persisted(vs, id) == IF id \in DOMAIN vs THEN vs[id].status ELSE "none"

InitServer ==
    /\ videos = <<>>
    /\ files = {}
    /\ unlinks = [u \in IDs |-> 0]
    /\ jobs = <<>>
    /\ now = 0
    /\ applied = [id \in IDs |-> 0]
    /\ requests = 0
    /\ up = [u \in IDs |-> UploadIdle]
    /\ qs = [q \in Queries |-> QueryIdle]
    /\ sw = [s \in Sweeps |-> SweepIdle]
    /\ put = PutIdle
    /\ del = DeleteIdle

\* The server with the storage layer at rest.
Init ==
    /\ InitServer
    /\ env = NoEnv /\ objects = {} /\ assets = {} /\ op = NoCall

\* new Date() / Date.now: a reading returns now, and time has passed before
\* the next one (the clock stops at MaxTime).
ClockRead ==
    now' = IF now < MaxTime THEN now + 1 ELSE now

\* The Engine finishes a job: its outcome is terminal.  The API reads a job
\* only through a record's jobId (the two axios.get calls), so the outcome is
\* drawn once a record carries the id; an earlier finish is indistinguishable.
EngineFinish(j) ==
    /\ j \in DOMAIN jobs
    /\ jobs[j] = JobRunning
    /\ \E id \in DOMAIN videos : videos[id].jobId = <<j>>
    /\ \E o \in JobOutcomes : jobs' = [jobs EXCEPT ![j] = o]
    /\ UNCHANGED <<videos, files, unlinks, now, applied, requests, up, qs, sw,
                   put, del, storage>>

\* The Engine stops answering status queries for a job, for good.
EngineHang(j) ==
    /\ j \in DOMAIN jobs
    /\ jobs[j] = JobRunning
    /\ \E id \in DOMAIN videos : videos[id].jobId = <<j>>
    /\ jobs' = [jobs EXCEPT ![j] = JobHung]
    /\ UNCHANGED <<videos, files, unlinks, now, applied, requests, up, qs, sw,
                   put, del, storage>>

\* One more request, or Poller tick, is taken in.
Arrive ==
    /\ requests < MaxRequests
    /\ requests' = requests + 1

\* --------------------------------------------- POST /api/videos/upload
\* fs.unlinkSync(req.file.path)
Unlink(u) ==
    /\ files' = files \ {u}
    /\ unlinks' = [unlinks EXCEPT ![u] = @ + 1]

\* if (fs.existsSync(req.file.path)) fs.unlinkSync(req.file.path)
UnlinkIfExists(u) ==
    IF u \in files THEN Unlink(u) ELSE UNCHANGED <<files, unlinks>>

\* The handler's state once it has answered.
UploadDone(u, code, vs) ==
    [up EXCEPT ![u] = [@ EXCEPT !.pc = "done", !.resp = code,
                                !.persisted = Persisted(vs, u)]]

\* The request arrives (multer has stored the temporary file when one was
\* sent), is validated, and the record is inserted with status uploading.
UploadAccept(u) ==
    /\ up[u].pc = "idle"
    /\ \A k \in IDs : k < u => up[k].pc # "idle"     \* ids in order of arrival
    /\ Arrive
    /\ \E hasFile \in BOOLEAN, title \in {"", "t1"}, dbOk \in BOOLEAN :
        LET doc == [video |-> videoSchema(title, "", now), modified |-> {}] IN
        IF ~hasFile THEN
            /\ up' = UploadDone(u, "400 no file", videos)
            /\ UNCHANGED <<videos, files, unlinks, now>>
        ELSE IF title = "" THEN
            /\ up' = UploadDone(u, "400 title", videos)
            /\ files' = files \cup {u}
            /\ UNCHANGED <<videos, unlinks, now>>
        ELSE IF dbOk THEN
            /\ videos' = videos @@ (u :> doc.video)
            /\ up' = [up EXCEPT ![u] = [@ EXCEPT !.pc = "created", !.doc = doc]]
            /\ files' = files \cup {u}
            /\ ClockRead
            /\ UNCHANGED unlinks
        ELSE
            \* the insert threw: outer catch, the stored file is unlinked
            /\ up' = UploadDone(u, "500 upload", videos)
            /\ files' = files
            /\ unlinks' = [unlinks EXCEPT ![u] = @ + 1]
            /\ ClockRead
            /\ UNCHANGED videos
    /\ UNCHANGED <<jobs, applied, qs, sw, put, del, storage>>

\* Variant: the catch of a rejected post does not assign status error.
UploadSubmit_NoErrorStatus(u) ==
    /\ up[u].pc = "created"
    /\ \E buildOk \in BOOLEAN, postOk \in BOOLEAN :
        IF ~buildOk THEN
            /\ UnlinkIfExists(u)
            /\ up' = UploadDone(u, "500 upload", videos)
            /\ UNCHANGED jobs
        ELSE IF postOk THEN
            LET j == Cardinality(DOMAIN jobs) + 1
                d1 == Assign(up[u].doc, "jobId", <<j>>)
                d2 == Assign(d1, "status", "processing") IN
            /\ jobs' = jobs @@ (j :> JobRunning)
            /\ up' = [up EXCEPT ![u] = [@ EXCEPT !.pc = "save processing",
                          !.doc = d2, !.posts = @ + 1, !.posted = "ok",
                          !.job = <<j>>]]
            /\ UNCHANGED <<files, unlinks>>
        ELSE
            /\ up' = [up EXCEPT ![u] = [@ EXCEPT !.pc = "save error",
                          !.posts = @ + 1, !.posted = "failed"]]
            /\ UNCHANGED <<jobs, files, unlinks>>
    /\ UNCHANGED <<videos, now, applied, requests, qs, sw, put, del, storage>>

\* Variant: an accepted submission assigns the status and no job id.
UploadSubmit_StatusOnly(u) ==
    /\ up[u].pc = "created"
    /\ \E buildOk \in BOOLEAN, postOk \in BOOLEAN :
        IF ~buildOk THEN
            /\ UnlinkIfExists(u)
            /\ up' = UploadDone(u, "500 upload", videos)
            /\ UNCHANGED jobs
        ELSE IF postOk THEN
            LET j == Cardinality(DOMAIN jobs) + 1
                d2 == Assign(up[u].doc, "status", "processing") IN
            /\ jobs' = jobs @@ (j :> JobRunning)
            /\ up' = [up EXCEPT ![u] = [@ EXCEPT !.pc = "save processing",
                          !.doc = d2, !.posts = @ + 1, !.posted = "ok",
                          !.job = <<j>>]]
            /\ UNCHANGED <<files, unlinks>>
        ELSE
            /\ up' = [up EXCEPT ![u] = [@ EXCEPT !.pc = "save error",
                          !.posts = @ + 1, !.posted = "failed",
                          !.doc = Assign(up[u].doc, "status", "error")]]
            /\ UNCHANGED <<jobs, files, unlinks>>
    /\ UNCHANGED <<videos, now, applied, requests, qs, sw, put, del, storage>>

\* The submission is built and posted to the Engine, and the Engine answers.
UploadSubmit(u) ==
    /\ up[u].pc = "created"
    /\ \E buildOk \in BOOLEAN, postOk \in BOOLEAN :
        IF ~buildOk THEN
            \* building the form data threw: outer catch
            /\ UnlinkIfExists(u)
            /\ up' = UploadDone(u, "500 upload", videos)
            /\ UNCHANGED jobs
        ELSE IF postOk THEN
            LET j == Cardinality(DOMAIN jobs) + 1
                d1 == Assign(up[u].doc, "jobId", <<j>>)
                d2 == Assign(d1, "status", "processing") IN
            /\ jobs' = jobs @@ (j :> JobRunning)
            /\ up' = [up EXCEPT ![u] = [@ EXCEPT !.pc = "save processing",
                          !.doc = d2, !.posts = @ + 1, !.posted = "ok",
                          !.job = <<j>>]]
            /\ UNCHANGED <<files, unlinks>>
        ELSE
            \* axios.post rejected: catch (processingError)
            /\ up' = [up EXCEPT ![u] = [@ EXCEPT !.pc = "save error",
                          !.posts = @ + 1, !.posted = "failed",
                          !.doc = Assign(up[u].doc, "status", "error")]]
            /\ UNCHANGED <<jobs, files, unlinks>>
    /\ UNCHANGED <<videos, now, applied, requests, qs, sw, put, del, storage>>

\* Variant: the save is not awaited, the success response is sent whether
\* or not it succeeds.
UploadSaveProcessing_NoAwait(u) ==
    /\ up[u].pc = "save processing"
    /\ \E dbOk \in BOOLEAN :
        /\ IF dbOk /\ SaveMatches(u, up[u].doc)
           THEN videos' = [videos EXCEPT ![u] = SaveResult(u, up[u].doc)]
           ELSE UNCHANGED videos
        /\ Unlink(u)
        /\ up' = [up EXCEPT ![u] = [@ EXCEPT !.pc = "done",
                      !.doc = Saved(up[u].doc), !.resp = "200",
                      !.persisted = Persisted(videos', u)]]
    /\ UNCHANGED <<jobs, now, applied, requests, qs, sw, put, del, storage>>

\* Variant: the catch of a failed save clears the job id.
UploadSaveProcessing_ClearsJobId(u) ==
    /\ up[u].pc = "save processing"
    /\ \E dbOk \in BOOLEAN :
        IF dbOk /\ SaveMatches(u, up[u].doc) THEN
            /\ videos' = [videos EXCEPT ![u] = SaveResult(u, up[u].doc)]
            /\ Unlink(u)
            /\ up' = [up EXCEPT ![u] = [@ EXCEPT !.pc = "done",
                          !.doc = Saved(up[u].doc), !.resp = "200",
                          !.persisted = Persisted(videos', u)]]
        ELSE
            /\ up' = [up EXCEPT ![u] = [@ EXCEPT !.pc = "save error",
                          !.doc = Assign(Assign(up[u].doc, "status", "error"),
                                         "jobId", Unset)]]
            /\ UNCHANGED <<videos, files, unlinks>>
    /\ UNCHANGED <<jobs, now, applied, requests, qs, sw, put, del, storage>>

\* await video.save() of jobId and status processing, then the cleanup and
\* the success response; a save that throws lands in catch (processingError).
UploadSaveProcessing(u) ==
    /\ up[u].pc = "save processing"
    /\ \E dbOk \in BOOLEAN :
        IF dbOk /\ SaveMatches(u, up[u].doc) THEN
            /\ videos' = [videos EXCEPT ![u] = SaveResult(u, up[u].doc)]
            /\ Unlink(u)
            /\ up' = [up EXCEPT ![u] = [@ EXCEPT !.pc = "done",
                          !.doc = Saved(up[u].doc), !.resp = "200",
                          !.persisted = Persisted(videos', u)]]
        ELSE
            /\ up' = [up EXCEPT ![u] = [@ EXCEPT !.pc = "save error",
                          !.doc = Assign(up[u].doc, "status", "error")]]
            /\ UNCHANGED <<videos, files, unlinks>>
    /\ UNCHANGED <<jobs, now, applied, requests, qs, sw, put, del, storage>>

\* Variant: the outer catch does not clean the temporary file up.
UploadSaveError_NoCleanup(u) ==
    /\ up[u].pc = "save error"
    /\ \E dbOk \in BOOLEAN :
        IF dbOk /\ SaveMatches(u, up[u].doc) THEN
            /\ videos' = [videos EXCEPT ![u] = SaveResult(u, up[u].doc)]
            /\ UnlinkIfExists(u)
            /\ up' = [up EXCEPT ![u] = [@ EXCEPT !.pc = "done",
                          !.doc = Saved(up[u].doc), !.resp = "500 processing",
                          !.persisted = Persisted(videos', u)]]
        ELSE
            /\ up' = UploadDone(u, "500 upload", videos)
            /\ UNCHANGED <<videos, files, unlinks>>
    /\ UNCHANGED <<jobs, now, applied, requests, qs, sw, put, del, storage>>

\* Variant: after a rejected post the catch submits the file once more.
UploadSaveError_RetriesSubmission(u) ==
    /\ up[u].pc = "save error"
    /\ \E dbOk \in BOOLEAN :
        IF up[u].posted = "failed" /\ up[u].posts < 2 THEN
            /\ up' = [up EXCEPT ![u] = [@ EXCEPT !.pc = "created"]]
            /\ UNCHANGED <<videos, files, unlinks>>
        ELSE IF dbOk /\ SaveMatches(u, up[u].doc) THEN
            /\ videos' = [videos EXCEPT ![u] = SaveResult(u, up[u].doc)]
            /\ UnlinkIfExists(u)
            /\ up' = [up EXCEPT ![u] = [@ EXCEPT !.pc = "done",
                          !.doc = Saved(up[u].doc), !.resp = "500 processing",
                          !.persisted = Persisted(videos', u)]]
        ELSE
            /\ UnlinkIfExists(u)
            /\ up' = UploadDone(u, "500 upload", videos)
            /\ UNCHANGED videos
    /\ UNCHANGED <<jobs, now, applied, requests, qs, sw, put, del, storage>>

\* catch (processingError): await video.save() of status error, the cleanup
\* and the 500 response; a save that throws lands in the outer catch.
UploadSaveError(u) ==
    /\ up[u].pc = "save error"
    /\ \E dbOk \in BOOLEAN :
        IF dbOk /\ SaveMatches(u, up[u].doc) THEN
            /\ videos' = [videos EXCEPT ![u] = SaveResult(u, up[u].doc)]
            /\ UnlinkIfExists(u)
            /\ up' = [up EXCEPT ![u] = [@ EXCEPT !.pc = "done",
                          !.doc = Saved(up[u].doc), !.resp = "500 processing",
                          !.persisted = Persisted(videos', u)]]
        ELSE
            /\ UnlinkIfExists(u)
            /\ up' = UploadDone(u, "500 upload", videos)
            /\ UNCHANGED videos
    /\ UNCHANGED <<jobs, now, applied, requests, qs, sw, put, del, storage>>

\* ------------------------------------------- GET /api/videos/:id/status
\* Variant: the entries are produced in the reverse of the payload's order.
MapFormats_Reversed(encoded_files) ==
    [i \in 1..Len(encoded_files) |->
        LET file == encoded_files[Len(encoded_files) + 1 - i] IN
        [quality |-> file.quality, url |-> file.url,
         size |-> file.size, bitrate |-> file.bitrate]]

\* encoded_files.map(file => ({quality, url, size, bitrate}))
MapFormats(encoded_files) ==
    [i \in 1..Len(encoded_files) |->
        [quality |-> encoded_files[i].quality, url |-> encoded_files[i].url,
         size |-> encoded_files[i].size, bitrate |-> encoded_files[i].bitrate]]

\* Variant: the status route's copy of the assignments misses the duration.
ReconcileOnDemand_NoDuration(d, jobData, t) ==
    IF jobData.status = "completed" /\ IsSet(jobData.data) THEN
        LET data == jobData.data[1]
            d1 == Assign(d, "status", "ready")
            d2 == Assign(d1, "thumbnail", <<data.thumbnail_url>>)
            d4 == Assign(d2, "videoInfo", <<data.video_info>>)
            d5 == Assign(d4, "formats", MapFormats(data.encoded_files))
            d6 == Assign(d5, "updatedAt", t)
        IN [doc |-> d6, save |-> TRUE]
    ELSE IF jobData.status = "error" THEN
        LET d1 == Assign(d, "status", "error")
            d2 == Assign(d1, "updatedAt", t)
        IN [doc |-> d2, save |-> TRUE]
    ELSE [doc |-> d, save |-> FALSE]

\* Variant: a job that is still running refreshes updatedAt.
ReconcileOnDemand_RunningTouchesUpdatedAt(d, jobData, t) ==
    IF jobData.status = "completed" /\ IsSet(jobData.data) THEN
        LET data == jobData.data[1]
            d1 == Assign(d, "status", "ready")
            d2 == Assign(d1, "thumbnail", <<data.thumbnail_url>>)
            d3 == Assign(d2, "duration", <<data.duration>>)
            d4 == Assign(d3, "videoInfo", <<data.video_info>>)
            d5 == Assign(d4, "formats", MapFormats(data.encoded_files))
            d6 == Assign(d5, "updatedAt", t)
        IN [doc |-> d6, save |-> TRUE]
    ELSE IF jobData.status = "error" THEN
        LET d1 == Assign(d, "status", "error")
            d2 == Assign(d1, "updatedAt", t)
        IN [doc |-> d2, save |-> TRUE]
    ELSE [doc |-> Assign(d, "updatedAt", t), save |-> TRUE]

\* "Update video based on job status" of the status route: the document
\* after the assignments, and whether video.save() is called.
ReconcileOnDemand(d, jobData, t) ==
    IF jobData.status = "completed" /\ IsSet(jobData.data) THEN
        LET data == jobData.data[1]
            d1 == Assign(d, "status", "ready")
            d2 == Assign(d1, "thumbnail", <<data.thumbnail_url>>)
            d3 == Assign(d2, "duration", <<data.duration>>)
            d4 == Assign(d3, "videoInfo", <<data.video_info>>)
            d5 == Assign(d4, "formats", MapFormats(data.encoded_files))
            d6 == Assign(d5, "updatedAt", t)
        IN [doc |-> d6, save |-> TRUE]
    ELSE IF jobData.status = "error" THEN
        LET d1 == Assign(d, "status", "error")
            d2 == Assign(d1, "updatedAt", t)
        IN [doc |-> d2, save |-> TRUE]
    ELSE [doc |-> d, save |-> FALSE]

\* The request once answered.
QueryDone(q, id, loaded, called, wrote, resp, vs) ==
    [qs EXCEPT ![q] = [pc |-> "done", id |-> id, doc |-> NoDoc, loaded |-> loaded,
                       called |-> called, failed |-> FALSE, wrote |-> wrote,
                       resp |-> resp, persisted |-> Persisted(vs, id)]]

\* Variant: the Engine is queried for every record that has a job id.
QueryStart_AlwaysAsks(q, id) ==
    /\ Arrive
    /\ qs[q].pc \in {"idle", "done"}
    /\ \E dbOk \in BOOLEAN :
        IF ~dbOk THEN
            qs' = QueryDone(q, id, "none", FALSE, FALSE, "500", videos)
        ELSE IF id \notin DOMAIN videos THEN
            qs' = QueryDone(q, id, "none", FALSE, FALSE, "404", videos)
        ELSE IF IsSet(videos[id].jobId) THEN
            qs' = [qs EXCEPT ![q] = [QueryIdle EXCEPT !.pc = "wait engine", !.id = id,
                      !.doc = [video |-> videos[id], modified |-> {}],
                      !.loaded = videos[id].status, !.called = TRUE]]
        ELSE
            qs' = QueryDone(q, id, videos[id].status, FALSE, FALSE,
                            videos[id].status, videos)
    /\ UNCHANGED <<videos, files, unlinks, jobs, now, applied, up, sw, put, del, storage>>

\* Video.findOne({id}); a record that is processing with a job id leads to
\* an Engine query, any other record is answered from the persisted status.
QueryStart(q, id) ==
    /\ Arrive
    /\ qs[q].pc \in {"idle", "done"}
    /\ \E dbOk \in BOOLEAN :
        IF ~dbOk THEN
            qs' = QueryDone(q, id, "none", FALSE, FALSE, "500", videos)
        ELSE IF id \notin DOMAIN videos THEN
            qs' = QueryDone(q, id, "none", FALSE, FALSE, "404", videos)
        ELSE IF videos[id].status = "processing" /\ IsSet(videos[id].jobId) THEN
            qs' = [qs EXCEPT ![q] = [QueryIdle EXCEPT !.pc = "wait engine", !.id = id,
                      !.doc = [video |-> videos[id], modified |-> {}],
                      !.loaded = videos[id].status, !.called = TRUE]]
        ELSE
            qs' = QueryDone(q, id, videos[id].status, FALSE, FALSE,
                            videos[id].status, videos)
    /\ UNCHANGED <<videos, files, unlinks, jobs, now, applied, up, sw, put, del, storage>>

\* Variant: a failed Engine query marks the record as failed and saves it.
QueryEngineReply_FailureMarksError(q) ==
    /\ qs[q].pc = "wait engine"
    /\ jobs[qs[q].doc.video.jobId[1]] # JobHung
    /\ \E getOk \in BOOLEAN :
        LET r == ReconcileOnDemand(qs[q].doc, jobs[qs[q].doc.video.jobId[1]], now) IN
        IF getOk /\ r.save THEN
            /\ qs' = [qs EXCEPT ![q] = [@ EXCEPT !.pc = "wait save", !.doc = r.doc]]
            /\ ClockRead
        ELSE IF ~getOk THEN
            /\ qs' = [qs EXCEPT ![q] = [@ EXCEPT !.pc = "wait save", !.failed = TRUE,
                          !.doc = Assign(qs[q].doc, "status", "error")]]
            /\ UNCHANGED now
        ELSE
            /\ qs' = QueryDone(q, qs[q].id, qs[q].loaded, TRUE, FALSE,
                               qs[q].doc.video.status, videos)
            /\ UNCHANGED now
    /\ UNCHANGED <<videos, files, unlinks, jobs, applied, requests, up, sw, put, del, storage>>

\* The Engine's answer to axios.get(/job/:jobId), or its failure, arrives.
QueryEngineReply(q) ==
    /\ qs[q].pc = "wait engine"
    /\ jobs[qs[q].doc.video.jobId[1]] # JobHung
    /\ \E getOk \in BOOLEAN :
        LET r == ReconcileOnDemand(qs[q].doc, jobs[qs[q].doc.video.jobId[1]], now) IN
        IF getOk /\ r.save THEN
            /\ qs' = [qs EXCEPT ![q] = [@ EXCEPT !.pc = "wait save", !.doc = r.doc]]
            /\ ClockRead
        ELSE
            \* catch (jobError), or no branch taken: respond
            /\ qs' = [QueryDone(q, qs[q].id, qs[q].loaded, TRUE, FALSE,
                                qs[q].doc.video.status, videos)
                         EXCEPT ![q].failed = ~getOk]
            /\ UNCHANGED now
    /\ UNCHANGED <<videos, files, unlinks, jobs, applied, requests, up, sw, put, del, storage>>

\* Variant: a save that matches no record inserts the document (upsert).
QuerySave_Upserts(q) ==
    /\ qs[q].pc = "wait save"
    /\ \E dbOk \in BOOLEAN :
        LET id == qs[q].id IN
        IF dbOk /\ SaveMatches(id, qs[q].doc) THEN
            /\ videos' = [videos EXCEPT ![id] = SaveResult(id, qs[q].doc)]
            /\ applied' = [applied EXCEPT ![id] = @ + 1]
            /\ qs' = QueryDone(q, id, qs[q].loaded, TRUE, TRUE,
                               qs[q].doc.video.status, videos')
        ELSE IF dbOk /\ id \notin DOMAIN videos THEN
            /\ videos' = videos @@ (id :> qs[q].doc.video)
            /\ applied' = [applied EXCEPT ![id] = @ + 1]
            /\ qs' = QueryDone(q, id, qs[q].loaded, TRUE, TRUE,
                               qs[q].doc.video.status, videos')
        ELSE
            /\ qs' = QueryDone(q, id, qs[q].loaded, TRUE, FALSE,
                               qs[q].doc.video.status, videos)
            /\ UNCHANGED <<videos, applied>>
    /\ UNCHANGED <<files, unlinks, jobs, now, requests, up, sw, put, del, storage>>

\* await video.save() completes or throws (caught by catch (jobError)); the
\* response carries the status of the document in memory.
QuerySave(q) ==
    /\ qs[q].pc = "wait save"
    /\ \E dbOk \in BOOLEAN :
        LET id == qs[q].id IN
        IF dbOk /\ SaveMatches(id, qs[q].doc) THEN
            /\ videos' = [videos EXCEPT ![id] = SaveResult(id, qs[q].doc)]
            /\ applied' = [applied EXCEPT ![id] = @ + 1]
            /\ qs' = QueryDone(q, id, qs[q].loaded, TRUE, TRUE,
                               qs[q].doc.video.status, videos')
        ELSE
            /\ qs' = QueryDone(q, id, qs[q].loaded, TRUE, FALSE,
                               qs[q].doc.video.status, videos)
            /\ UNCHANGED <<videos, applied>>
    /\ UNCHANGED <<files, unlinks, jobs, now, requests, up, sw, put, del, storage>>

\* ------------------------------------------------- checkProcessingJobs
\* Variant: the Poller's copy of the assignments misses the status.
ReconcilePoller_NoStatus(d, jobData, t) ==
    IF jobData.status = "completed" /\ IsSet(jobData.data) THEN
        LET data == jobData.data[1]
            d2 == Assign(d, "thumbnail", <<data.thumbnail_url>>)
            d3 == Assign(d2, "duration", <<data.duration>>)
            d4 == Assign(d3, "videoInfo", <<data.video_info>>)
            d5 == Assign(d4, "formats", MapFormats(data.encoded_files))
            d6 == Assign(d5, "updatedAt", t)
        IN [doc |-> d6, save |-> TRUE]
    ELSE IF jobData.status = "error" THEN
        LET d1 == Assign(d, "status", "error")
            d2 == Assign(d1, "updatedAt", t)
        IN [doc |-> d2, save |-> TRUE]
    ELSE [doc |-> d, save |-> FALSE]

\* Variant: the Poller's error branch leaves updatedAt as it was.
ReconcilePoller_ErrorKeepsUpdatedAt(d, jobData, t) ==
    IF jobData.status = "completed" /\ IsSet(jobData.data) THEN
        LET data == jobData.data[1]
            d1 == Assign(d, "status", "ready")
            d2 == Assign(d1, "thumbnail", <<data.thumbnail_url>>)
            d3 == Assign(d2, "duration", <<data.duration>>)
            d4 == Assign(d3, "videoInfo", <<data.video_info>>)
            d5 == Assign(d4, "formats", MapFormats(data.encoded_files))
            d6 == Assign(d5, "updatedAt", t)
        IN [doc |-> d6, save |-> TRUE]
    ELSE IF jobData.status = "error" THEN
        [doc |-> Assign(d, "status", "error"), save |-> TRUE]
    ELSE [doc |-> d, save |-> FALSE]

\* Variant: the Poller's copy of the assignments misses the thumbnail.
ReconcilePoller_NoThumbnail(d, jobData, t) ==
    IF jobData.status = "completed" /\ IsSet(jobData.data) THEN
        LET data == jobData.data[1]
            d1 == Assign(d, "status", "ready")
            d3 == Assign(d1, "duration", <<data.duration>>)
            d4 == Assign(d3, "videoInfo", <<data.video_info>>)
            d5 == Assign(d4, "formats", MapFormats(data.encoded_files))
            d6 == Assign(d5, "updatedAt", t)
        IN [doc |-> d6, save |-> TRUE]
    ELSE IF jobData.status = "error" THEN
        LET d1 == Assign(d, "status", "error")
            d2 == Assign(d1, "updatedAt", t)
        IN [doc |-> d2, save |-> TRUE]
    ELSE [doc |-> d, save |-> FALSE]

\* The body of the Poller's loop: the same assignments, written a second time.
ReconcilePoller(d, jobData, t) ==
    IF jobData.status = "completed" /\ IsSet(jobData.data) THEN
        LET data == jobData.data[1]
            d1 == Assign(d, "status", "ready")
            d2 == Assign(d1, "thumbnail", <<data.thumbnail_url>>)
            d3 == Assign(d2, "duration", <<data.duration>>)
            d4 == Assign(d3, "videoInfo", <<data.video_info>>)
            d5 == Assign(d4, "formats", MapFormats(data.encoded_files))
            d6 == Assign(d5, "updatedAt", t)
        IN [doc |-> d6, save |-> TRUE]
    ELSE IF jobData.status = "error" THEN
        LET d1 == Assign(d, "status", "error")
            d2 == Assign(d1, "updatedAt", t)
        IN [doc |-> d2, save |-> TRUE]
    ELSE [doc |-> d, save |-> FALSE]

\* Variant: only the first processing record is loaded (findOne).
FindProcessing_FirstOnly(ids) ==
    LET found == {i \in ids \cap DOMAIN videos : videos[i].status = "processing"} IN
    IF found = {} THEN <<>>
    ELSE LET id == CHOOSE i \in found : \A k \in found : i <= k IN
         <<[id |-> id, doc |-> [video |-> videos[id], modified |-> {}]]>>

\* Video.find({status: 'processing'}): the loaded documents, in id order.
RECURSIVE FindProcessing(_)
FindProcessing(ids) ==
    IF ids = {} THEN <<>>
    ELSE LET id == CHOOSE i \in ids : \A k \in ids : i <= k
             rest == FindProcessing(ids \ {id}) IN
         IF id \in DOMAIN videos /\ videos[id].status = "processing"
         THEN <<[id |-> id, doc |-> [video |-> videos[id], modified |-> {}]]>> \o rest
         ELSE rest

\* The loop skips documents without a job id (if (video.jobId)).
RECURSIVE SkipNoJob(_)
SkipNoJob(docs) ==
    IF docs = <<>> THEN <<>>
    ELSE IF IsSet(Head(docs).doc.video.jobId) THEN docs
    ELSE SkipNoJob(Tail(docs))

\* The sweep after its head document: the next Engine query, or its end.
SweepAdvance(s) ==
    LET rest == SkipNoJob(Tail(sw[s].docs)) IN
    [sw EXCEPT ![s] = [pc |-> IF rest = <<>> THEN "idle" ELSE "wait engine",
                       docs |-> rest, failed |-> FALSE]]

\* A run of checkProcessingJobs starts: the processing records are loaded
\* and the Engine is queried for the first of them.
SweepLoad(s) ==
    /\ sw[s].pc = "idle"
    /\ s = CHOOSE x \in Sweeps : sw[x].pc = "idle"     \* any free run
    /\ LET docs == SkipNoJob(FindProcessing(IDs)) IN
        /\ docs # <<>>
        /\ sw' = [sw EXCEPT ![s] = [pc |-> "wait engine", docs |-> docs,
                                    failed |-> FALSE]]
    /\ UNCHANGED <<videos, files, unlinks, jobs, now, applied, up, qs, put, del, storage>>

\* A timer tick, one of the bounded number of requests and ticks taken in.
SweepStart(s) == Arrive /\ SweepLoad(s)

\* A timer tick of the timer that never stops.
PollerTick(s) == SweepLoad(s) /\ UNCHANGED requests

\* The Engine does not answer the query for the head document: the run stays
\* suspended at its await for good and handles none of its remaining
\* documents.  Its place is given back: every later tick is a new run.
SweepSuspended(s) ==
    /\ sw[s].pc = "wait engine"
    /\ jobs[Head(sw[s].docs).doc.video.jobId[1]] = JobHung
    /\ sw' = [sw EXCEPT ![s] = SweepIdle]
    /\ UNCHANGED <<videos, files, unlinks, jobs, now, applied, requests, up,
                   qs, put, del, storage>>

\* The Engine's answer for the head document, or its failure, arrives.
SweepEngineReply(s) ==
    /\ sw[s].pc = "wait engine"
    /\ jobs[Head(sw[s].docs).doc.video.jobId[1]] # JobHung
    /\ \E getOk \in BOOLEAN :
        LET head == Head(sw[s].docs)
            r == ReconcilePoller(head.doc, jobs[head.doc.video.jobId[1]], now) IN
        IF getOk /\ r.save THEN
            /\ sw' = [sw EXCEPT ![s] = [pc |-> "wait save", failed |-> FALSE,
                      docs |-> <<[id |-> head.id, doc |-> r.doc]>> \o Tail(sw[s].docs)]]
            /\ ClockRead
        ELSE
            \* catch (jobError), or no branch taken: the next document
            /\ sw' = [SweepAdvance(s) EXCEPT ![s].failed = ~getOk]
            /\ UNCHANGED now
    /\ UNCHANGED <<videos, files, unlinks, jobs, applied, requests, up, qs, put, del, storage>>

\* Variant: the save writes the status alone, the other paths are left for a
\* later write.
SweepSave_StatusFirst(s) ==
    /\ sw[s].pc = "wait save"
    /\ \E dbOk \in BOOLEAN :
        LET head == Head(sw[s].docs) IN
        /\ IF dbOk /\ SaveMatches(head.id, head.doc)
           THEN /\ videos' = [videos EXCEPT ![head.id].status = head.doc.video.status]
                /\ applied' = [applied EXCEPT ![head.id] = @ + 1]
           ELSE UNCHANGED <<videos, applied>>
        /\ sw' = SweepAdvance(s)
    /\ UNCHANGED <<files, unlinks, jobs, now, requests, up, qs, put, del, storage>>

\* Variant: a save that throws is not caught per record and ends the run.
SweepSave_FailureAborts(s) ==
    /\ sw[s].pc = "wait save"
    /\ \E dbOk \in BOOLEAN :
        LET head == Head(sw[s].docs) IN
        IF dbOk /\ SaveMatches(head.id, head.doc)
        THEN /\ videos' = [videos EXCEPT ![head.id] = SaveResult(head.id, head.doc)]
             /\ applied' = [applied EXCEPT ![head.id] = @ + 1]
             /\ sw' = SweepAdvance(s)
        ELSE /\ UNCHANGED <<videos, applied>>
             /\ sw' = [sw EXCEPT ![s] = SweepIdle]
    /\ UNCHANGED <<files, unlinks, jobs, now, requests, up, qs, put, del, storage>>

\* await video.save() of the head document completes or throws (caught per
\* record); the sweep goes on with the next document.
SweepSave(s) ==
    /\ sw[s].pc = "wait save"
    /\ \E dbOk \in BOOLEAN :
        LET head == Head(sw[s].docs) IN
        /\ IF dbOk /\ SaveMatches(head.id, head.doc)
           THEN /\ videos' = [videos EXCEPT ![head.id] = SaveResult(head.id, head.doc)]
                /\ applied' = [applied EXCEPT ![head.id] = @ + 1]
           ELSE UNCHANGED <<videos, applied>>
        /\ sw' = SweepAdvance(s)
    /\ UNCHANGED <<files, unlinks, jobs, now, requests, up, qs, put, del, storage>>

\* ---------------------------------------------------- PUT /api/videos/:id
\* findOne, then title (when truthy), description (when defined) and
\* updatedAt are assigned.  A title or description of <<>> is one not sent.
PutStart(id, title, description) ==
    /\ Arrive
    /\ put.pc \in {"idle", "done"}
    /\ id \in DOMAIN videos
    /\ LET d0 == [video |-> videos[id], modified |-> {}]
           d1 == IF IsSet(title) /\ title[1] # ""
                 THEN Assign(d0, "title", title[1]) ELSE d0
           d2 == IF IsSet(description)
                 THEN Assign(d1, "description", description[1]) ELSE d1
           d3 == Assign(d2, "updatedAt", now) IN
        put' = [pc |-> "wait save", id |-> id, doc |-> d3, wrote |-> FALSE]
    /\ ClockRead
    /\ UNCHANGED <<videos, files, unlinks, jobs, applied, up, qs, sw, del, storage>>

\* Variant: the document in memory replaces the persisted one.
PutSave_ReplacesDocument ==
    /\ put.pc = "wait save"
    /\ \E dbOk \in BOOLEAN :
        IF dbOk /\ SaveMatches(put.id, put.doc)
        THEN /\ videos' = [videos EXCEPT ![put.id] = put.doc.video]
             /\ put' = [put EXCEPT !.pc = "done", !.wrote = TRUE]
        ELSE /\ put' = [put EXCEPT !.pc = "done"]
             /\ UNCHANGED videos
    /\ UNCHANGED <<files, unlinks, jobs, now, applied, requests, up, qs, sw, del,
                   storage>>

\* await video.save() completes (the document is returned) or throws (500).
PutSave ==
    /\ put.pc = "wait save"
    /\ \E dbOk \in BOOLEAN :
        IF dbOk /\ SaveMatches(put.id, put.doc)
        THEN /\ videos' = [videos EXCEPT ![put.id] = SaveResult(put.id, put.doc)]
             /\ put' = [put EXCEPT !.pc = "done", !.wrote = TRUE]
        ELSE /\ put' = [put EXCEPT !.pc = "done"]
             /\ UNCHANGED videos
    /\ UNCHANGED <<files, unlinks, jobs, now, applied, requests, up, qs, sw, del,
                   storage>>

\* ------------------------------------------------- DELETE /api/videos/:id
\* The request once answered.
DeleteDone(id, resp) == [pc |-> "done", id |-> id, resp |-> resp]

\* Video.findOne({id}): an id without record is answered 404 'Video not
\* found', a query that throws 500; else deleteOne is awaited.
DeleteStart(id) ==
    /\ Arrive
    /\ del.pc \in {"idle", "done"}
    /\ \E dbOk \in BOOLEAN :
        del' = IF ~dbOk THEN DeleteDone(id, "500")
               ELSE IF id \notin DOMAIN videos THEN DeleteDone(id, "404")
               ELSE [pc |-> "wait delete", id |-> id, resp |-> "none"]
    /\ UNCHANGED <<videos, files, unlinks, jobs, now, applied, up, qs, sw, put, storage>>

\* Variant: the storage layer's deleteFile is called for the record's key.
DeleteOne_CallsDeleteFile ==
    /\ del.pc = "wait delete"
    /\ \E dbOk \in BOOLEAN :
        IF dbOk
        THEN /\ videos' = [i \in DOMAIN videos \ {del.id} |-> videos[i]]
             /\ del' = DeleteDone(del.id, "200")
             /\ op' = [NoCall EXCEPT !.pc = "s3.deleteObject", !.fn = "deleteFile"]
        ELSE /\ del' = DeleteDone(del.id, "500")
             /\ UNCHANGED <<videos, op>>
    /\ UNCHANGED <<files, unlinks, jobs, now, applied, requests, up, qs, sw, put,
                   env, objects, assets>>

\* await Video.deleteOne({id}) removes the record with that id and the
\* request is answered 'Video deleted successfully', or throws (500).  The
\* storage layer is not called (TODO: Delete video files from storage).
DeleteOne ==
    /\ del.pc = "wait delete"
    /\ \E dbOk \in BOOLEAN :
        IF dbOk
        THEN /\ videos' = [i \in DOMAIN videos \ {del.id} |-> videos[i]]
             /\ del' = DeleteDone(del.id, "200")
        ELSE /\ del' = DeleteDone(del.id, "500")
             /\ UNCHANGED videos
    /\ UNCHANGED <<files, unlinks, jobs, now, applied, requests, up, qs, sw, put,
                   storage>>

\* ------------------------------------------------------------ storage.js
\* The server's state, which the storage layer leaves alone.
server ==
    <<videos, files, unlinks, jobs, now, applied, requests, up, qs, sw, put, del>>

\* process.env.AWS_ACCESS_KEY_ID && process.env.S3_BUCKET
S3Configured == env.AWS_ACCESS_KEY_ID /\ env.S3_BUCKET

\* process.env.CLOUDINARY_CLOUD_NAME
CloudinaryConfigured == env.CLOUDINARY_CLOUD_NAME

\* bucket = process.env.S3_BUCKET : the default applies to an undefined
\* argument only.
DefaultBucket(bucket) ==
    IF bucket # Unset THEN bucket
    ELSE IF env.S3_BUCKET THEN <<"main">> ELSE Unset

\* !bucket
Falsy(bucket) == bucket = Unset \/ bucket = <<"">>

\* { success: false, error: error.message }
Failure(message) == [success |-> FALSE, error |-> message]

\* The call once it has returned value.
Return(call, value) == [call EXCEPT !.pc = "done", !.result = <<value>>]

\* The SDK call api has settled: fulfilled (ok) or rejected.
Settled(call, api, ok) ==
    [call EXCEPT !.calls = Append(@, [api |-> api, ok |-> ok])]

\* uploadToS3 up to its await: the configuration test, the read of the file
\* and the call of s3.upload.
UploadToS3Begin(call, fileOk) ==
    LET c == [call EXCEPT !.delegated = Append(@, "uploadToS3")] IN
    IF ~env.AWS_ACCESS_KEY_ID \/ Falsy(c.bucket)
    THEN Return(c, Failure("AWS S3 not configured"))
    ELSE IF ~fileOk THEN Return(c, Failure("ENOENT"))
    ELSE [c EXCEPT !.pc = "s3.upload"]

\* uploadToCloudinary up to its await.
UploadToCloudinaryBegin(call) ==
    LET c == [call EXCEPT !.delegated = Append(@, "uploadToCloudinary")] IN
    IF ~env.CLOUDINARY_CLOUD_NAME
    THEN Return(c, Failure("Cloudinary not configured"))
    ELSE [c EXCEPT !.pc = "cloudinary.upload"]

\* Variant: Cloudinary is preferred when both providers are configured.
uploadFile_PrefersCloudinary(key, bucket) ==
    /\ op.pc \in {"idle", "done"}
    /\ LET call == [NoCall EXCEPT !.fn = "uploadFile", !.key = key,
                                  !.bucket = DefaultBucket(bucket)] IN
        IF CloudinaryConfigured THEN op' = UploadToCloudinaryBegin(call)
        ELSE IF S3Configured
        THEN \E fileOk \in BOOLEAN : op' = UploadToS3Begin(call, fileOk)
        ELSE op' = Return(call, Failure("No storage provider configured"))
    /\ UNCHANGED <<env, objects, assets, server>>

\* uploadFile(filePath, key, options) up to the provider call it awaits.
uploadFile(key, bucket) ==
    /\ op.pc \in {"idle", "done"}
    /\ LET call == [NoCall EXCEPT !.fn = "uploadFile", !.key = key,
                                  !.bucket = DefaultBucket(bucket)] IN
        IF S3Configured
        THEN \E fileOk \in BOOLEAN : op' = UploadToS3Begin(call, fileOk)
        ELSE IF CloudinaryConfigured THEN op' = UploadToCloudinaryBegin(call)
        ELSE op' = Return(call, Failure("No storage provider configured"))
    /\ UNCHANGED <<env, objects, assets, server>>

\* Variant: when s3.upload rejects, the upload is tried on Cloudinary.
uploadToS3_FailsOver ==
    /\ op.pc = "s3.upload"
    /\ \E ok \in BOOLEAN :
        LET c == Settled(op, "s3.upload", ok) IN
        IF ok THEN
            /\ objects' = objects \cup {<<op.bucket[1], op.key>>}
            /\ op' = Return(c, [success |-> TRUE, url |-> <<"s3", op.bucket[1], op.key>>,
                                key |-> op.key, bucket |-> op.bucket[1]])
        ELSE
            /\ op' = IF CloudinaryConfigured THEN UploadToCloudinaryBegin(c)
                      ELSE Return(c, Failure("s3.upload rejected"))
            /\ UNCHANGED objects
    /\ UNCHANGED <<env, assets, server>>

\* uploadToS3 from its await on: s3.upload(params).promise() settles.
uploadToS3 ==
    /\ op.pc = "s3.upload"
    /\ \E ok \in BOOLEAN :
        LET c == Settled(op, "s3.upload", ok) IN
        IF ok THEN
            /\ objects' = objects \cup {<<op.bucket[1], op.key>>}
            /\ op' = Return(c, [success |-> TRUE, url |-> <<"s3", op.bucket[1], op.key>>,
                                key |-> op.key, bucket |-> op.bucket[1]])
        ELSE
            /\ op' = Return(c, Failure("s3.upload rejected"))
            /\ UNCHANGED objects
    /\ UNCHANGED <<env, assets, server>>

\* uploadToCloudinary from its await on: cloudinary.uploader.upload settles.
uploadToCloudinary ==
    /\ op.pc = "cloudinary.upload"
    /\ \E ok \in BOOLEAN :
        LET c == Settled(op, "cloudinary.upload", ok) IN
        IF ok THEN
            /\ assets' = assets \cup {op.key}
            /\ op' = Return(c, [success |-> TRUE, url |-> <<"cloudinary", op.key>>,
                                publicId |-> op.key])
        ELSE
            /\ op' = Return(c, Failure("cloudinary upload rejected"))
            /\ UNCHANGED assets
    /\ UNCHANGED <<env, objects, server>>

\* Variant: the aggregate is success only when every delete succeeded.
Aggregate_Every(results) ==
    [success |-> \A i \in 1..Len(results) : results[i].success,
     results |-> results]

\* { success: results.some(result => result.success), results }
Aggregate(results) ==
    [success |-> \E i \in 1..Len(results) : results[i].success,
     results |-> results]

\* deleteFile(key, options) up to the first provider call it awaits.
deleteFile(key, bucket) ==
    /\ op.pc \in {"idle", "done"}
    /\ LET call == [NoCall EXCEPT !.fn = "deleteFile", !.key = key,
                                  !.bucket = DefaultBucket(bucket)] IN
        IF S3Configured
        THEN op' = [call EXCEPT !.pc = "s3.deleteObject",
                                !.delegated = Append(@, "deleteFromS3")]
        ELSE IF CloudinaryConfigured
        THEN op' = [call EXCEPT !.pc = "cloudinary.destroy",
                                !.delegated = Append(@, "deleteFromCloudinary")]
        ELSE op' = Return(call, Aggregate(<<>>))
    /\ UNCHANGED <<env, objects, assets, server>>

\* Variant: deleteFile returns after a successful delete from S3.
deleteFromS3_StopsOnSuccess ==
    /\ op.pc = "s3.deleteObject"
    /\ \E ok \in {o \in BOOLEAN : o => ~Falsy(op.bucket)} :
        LET c == [Settled(op, "s3.deleteObject", ok) EXCEPT !.results =
                      Append(@, IF ok THEN [success |-> TRUE]
                                ELSE Failure("s3.deleteObject rejected"))] IN
        /\ objects' = IF ok THEN objects \ {<<op.bucket[1], op.key>>} ELSE objects
        /\ op' = IF CloudinaryConfigured /\ ~ok
                  THEN [c EXCEPT !.pc = "cloudinary.destroy",
                                 !.delegated = Append(@, "deleteFromCloudinary")]
                  ELSE Return(c, Aggregate(c.results))
    /\ UNCHANGED <<env, assets, server>>

\* deleteFromS3 from its await on: s3.deleteObject(params).promise() settles
\* (it is rejected for a bucket that is not a name), its result is pushed,
\* and deleteFile goes on to Cloudinary or returns.
deleteFromS3 ==
    /\ op.pc = "s3.deleteObject"
    /\ \E ok \in {o \in BOOLEAN : o => ~Falsy(op.bucket)} :
        LET c == [Settled(op, "s3.deleteObject", ok) EXCEPT !.results =
                      Append(@, IF ok THEN [success |-> TRUE]
                                ELSE Failure("s3.deleteObject rejected"))] IN
        /\ objects' = IF ok THEN objects \ {<<op.bucket[1], op.key>>} ELSE objects
        /\ op' = IF CloudinaryConfigured
                  THEN [c EXCEPT !.pc = "cloudinary.destroy",
                                 !.delegated = Append(@, "deleteFromCloudinary")]
                  ELSE Return(c, Aggregate(c.results))
    /\ UNCHANGED <<env, assets, server>>

\* deleteFromCloudinary from its await on: cloudinary.uploader.destroy
\* settles, with result 'ok' for a stored public id and 'not found'
\* otherwise; its result is pushed and deleteFile returns.
deleteFromCloudinary ==
    /\ op.pc = "cloudinary.destroy"
    /\ \E ok \in BOOLEAN :
        LET found == IF op.key \in assets THEN "ok" ELSE "not found"
            c == [Settled(op, "cloudinary.destroy", ok /\ found = "ok")
                     EXCEPT !.results =
                      Append(@, IF ok THEN [success |-> found = "ok", result |-> found]
                                ELSE Failure("cloudinary destroy rejected"))] IN
        /\ assets' = IF ok THEN assets \ {op.key} ELSE assets
        /\ op' = Return(c, Aggregate(c.results))
    /\ UNCHANGED <<env, objects, server>>

\* The call once it has thrown an error with this message.
Throw(call, message) == [call EXCEPT !.pc = "done", !.result = <<[thrown |-> message]>>]

\* getSignedUrl(s3Key, expiresIn, bucket): synchronous; whatever the
\* configuration, the parameters are handed to s3.getSignedUrl('getObject',
\* params), whose URL is returned and whose error (always, for a bucket that
\* is not a name) is thrown on to the caller.
getSignedUrl(key, bucket) ==
    /\ op.pc \in {"idle", "done"}
    /\ LET call == [NoCall EXCEPT !.fn = "getSignedUrl", !.key = key,
                                  !.bucket = DefaultBucket(bucket)] IN
        \E ok \in {o \in BOOLEAN : o => ~Falsy(call.bucket)} :
            LET c == Settled(call, "s3.getSignedUrl", ok) IN
            op' = IF ok THEN Return(c, <<"signed", call.bucket[1], key>>)
                  ELSE Throw(c, "s3.getSignedUrl threw")
    /\ UNCHANGED <<env, objects, assets, server>>

\* -------------------------------------------------------- getContentType
\* A string is a sequence of characters.  String.prototype.toLowerCase, on
\* the letters of the Latin alphabet.
LowerCase == <<"a", "b", "c", "d", "e", "f", "g", "h", "i", "j", "k", "l", "m",
               "n", "o", "p", "q", "r", "s", "t", "u", "v", "w", "x", "y", "z">>
UpperCase == <<"A", "B", "C", "D", "E", "F", "G", "H", "I", "J", "K", "L", "M",
               "N", "O", "P", "Q", "R", "S", "T", "U", "V", "W", "X", "Y", "Z">>

toLowerCase(str) ==
    [i \in 1..Len(str) |->
        IF \E k \in 1..26 : UpperCase[k] = str[i]
        THEN LowerCase[CHOOSE k \in 1..26 : UpperCase[k] = str[i]]
        ELSE str[i]]

\* path.extname (posix): trailing slashes are dropped, the last portion of
\* the path is taken, and the result runs from its last '.' to its end; it is
\* empty when there is no '.', when the only '.' is the portion's first
\* character, and for the portion '..'.
extname(path) ==
    LET ends == {i \in 1..Len(path) : path[i] # "/"}
        end == IF ends = {} THEN 0 ELSE CHOOSE i \in ends : \A k \in ends : k <= i
        slashes == {i \in 1..end : path[i] = "/"}
        startPart == IF slashes = {} THEN 1
                     ELSE 1 + CHOOSE i \in slashes : \A k \in slashes : k <= i
        dots == {i \in startPart..end : path[i] = "."}
        startDot == IF dots = {} THEN 0 ELSE CHOOSE i \in dots : \A k \in dots : k <= i
    IN  IF end = 0 \/ startDot = 0 \/ startDot = startPart
            \/ (path[startPart] = "." /\ startDot = end /\ startDot = startPart + 1)
        THEN <<>>
        ELSE SubSeq(path, startDot, end)

\* const contentTypes = { '.mp4': 'video/mp4', ... }
contentTypes ==
    (<<".", "m", "p", "4">> :> "video/mp4")
    @@ (<<".", "a", "v", "i">> :> "video/x-msvideo")
    @@ (<<".", "m", "o", "v">> :> "video/quicktime")
    @@ (<<".", "w", "m", "v">> :> "video/x-ms-wmv")
    @@ (<<".", "f", "l", "v">> :> "video/x-flv")
    @@ (<<".", "w", "e", "b", "m">> :> "video/webm")
    @@ (<<".", "m", "k", "v">> :> "video/x-matroska")
    @@ (<<".", "j", "p", "g">> :> "image/jpeg")
    @@ (<<".", "j", "p", "e", "g">> :> "image/jpeg")
    @@ (<<".", "p", "n", "g">> :> "image/png")
    @@ (<<".", "g", "i", "f">> :> "image/gif")

\* Variant: the extension is looked up as it is written.
getContentType_CaseSensitive(filePath) ==
    LET ext == extname(filePath) IN
    IF ext \in DOMAIN contentTypes THEN contentTypes[ext]
    ELSE "application/octet-stream"

\* getContentType(filePath): contentTypes[ext] || 'application/octet-stream'
\* for ext = path.extname(filePath).toLowerCase().
getContentType(filePath) ==
    LET ext == toLowerCase(extname(filePath)) IN
    IF ext \in DOMAIN contentTypes THEN contentTypes[ext]
    ELSE "application/octet-stream"

\* The call getContentType(op.path) is made and returns.
GetContentTypeCall ==
    /\ op.pc = "idle"
    /\ op' = Return([op EXCEPT !.fn = "getContentType"], getContentType(op.path))
    /\ UNCHANGED <<env, objects, assets, server>>

\* A metadata update request: nothing, or a title and a description.
PutBodies == {<<Unset, Unset>>, <<(<<"t2">>), (<<"d2">>)>>}

Next ==
    \/ \E j \in IDs : EngineFinish(j)
    \/ \E u \in IDs : UploadAccept(u)
    \/ \E u \in IDs : UploadSubmit(u)
    \/ \E u \in IDs : UploadSaveProcessing(u)
    \/ \E u \in IDs : UploadSaveError(u)
    \/ \E q \in Queries, id \in IDs : QueryStart(q, id)
    \/ \E q \in Queries : QueryEngineReply(q)
    \/ \E q \in Queries : QuerySave(q)
    \/ \E s \in Sweeps : SweepStart(s)
    \/ \E s \in Sweeps : SweepEngineReply(s)
    \/ \E s \in Sweeps : SweepSave(s)
    \/ \E id \in IDs, b \in PutBodies : PutStart(id, b[1], b[2])
    \/ PutSave
    \/ \E id \in IDs : DeleteStart(id)
    \/ DeleteOne

Spec == Init /\ [][Next]_vars

\* ------------------------------------------------ the Poller left alone
\* Uploads, the Engine and the Poller's timer, without status requests,
\* updates or deletes.
NextPoller ==
    \/ \E j \in IDs : EngineFinish(j)
    \/ \E u \in IDs : UploadAccept(u)
    \/ \E u \in IDs : UploadSubmit(u)
    \/ \E u \in IDs : UploadSaveProcessing(u)
    \/ \E u \in IDs : UploadSaveError(u)
    \/ \E s \in Sweeps : PollerTick(s)
    \/ \E s \in Sweeps : SweepEngineReply(s)
    \/ \E s \in Sweeps : SweepSave(s)

\* The same with an Engine that may stop answering for a job.
NextPollerHang ==
    \/ NextPoller
    \/ \E j \in IDs : EngineHang(j)
    \/ \E s \in Sweeps : SweepSuspended(s)

\* Run s gets the Engine's answer for the document of video id.
ReplyOkFor(s, id) ==
    /\ sw[s].pc = "wait engine" /\ Head(sw[s].docs).id = id
    /\ SweepEngineReply(s) /\ ~sw'[s].failed

\* The save of run s updates the record of video id.
SaveOkFor(s, id) ==
    /\ sw[s].pc = "wait save" /\ Head(sw[s].docs).id = id
    /\ SweepSave(s) /\ applied'[id] = applied[id] + 1

\* setInterval keeps firing; a pending Engine query or save ends, in success
\* or failure; failures are transient: a query or a save that is attempted
\* again and again for a record succeeds at some attempt.
PollerFairness ==
    /\ WF_vars(\E s \in Sweeps : PollerTick(s))
    /\ \A s \in Sweeps :
          /\ WF_vars(SweepEngineReply(s))
          /\ WF_vars(SweepSave(s))
          /\ WF_vars(SweepSuspended(s))
          /\ \A id \in IDs : SF_vars(ReplyOkFor(s, id)) /\ SF_vars(SaveOkFor(s, id))

SpecPoller == Init /\ [][NextPoller]_vars /\ PollerFairness

SpecPollerHang == Init /\ [][NextPollerHang]_vars /\ PollerFairness

\* ------------------------------------------------ the storage layer alone
\* Any configuration, and providers holding whatever was stored with them
\* before (under this configuration or another one); no call made yet.
InitStorage ==
    /\ InitServer
    /\ env \in Envs
    /\ objects \in SUBSET ({"main", "other"} \X Keys)
    /\ assets \in SUBSET Keys
    /\ op = NoCall

NextStorage ==
    \/ \E key \in Keys, bucket \in BucketOptions : uploadFile(key, bucket)
    \/ uploadToS3
    \/ uploadToCloudinary
    \/ \E key \in Keys, bucket \in BucketOptions : deleteFile(key, bucket)
    \/ deleteFromS3
    \/ deleteFromCloudinary
    \/ \E key \in Keys, bucket \in BucketOptions : getSignedUrl(key, bucket)

SpecStorage == InitStorage /\ [][NextStorage]_vars

\* ------------------------------------------------ getContentType alone
\* The file paths tried: every string of at most MaxPath characters over
\* PathChars, and every extension of the table and some others, written in
\* lower case, in upper case and with a capital first letter, after a file
\* name, after a directory, after a dotted name and on its own.
PathChars == {"/", ".", "m", "P", "4", "x"}

toUpperCase(str) ==
    [i \in 1..Len(str) |->
        IF \E k \in 1..26 : LowerCase[k] = str[i]
        THEN UpperCase[CHOOSE k \in 1..26 : LowerCase[k] = str[i]]
        ELSE str[i]]

Capitalized(str) ==
    IF Len(str) < 2 THEN str
    ELSE <<str[1]>> \o toUpperCase(<<str[2]>>) \o SubSeq(str, 3, Len(str))

Extensions ==
    DOMAIN contentTypes
    \cup {<<".", "x", "y", "z">>, <<".", "m", "p", "3">>, <<".", "m", "p">>,
          <<".", "m", "p", "4", "v">>, <<".", "t", "x", "t">>}

Stems ==
    {<<>>, <<"a">>, <<"d", "/", "a">>, <<"a", ".", "b">>, <<"d", ".", "d", "/">>,
     <<".">>, <<"/">>}

Paths ==
    UNION {[1..n -> PathChars] : n \in 0..MaxPath}
    \cup {stem \o ext : stem \in Stems,
                        ext \in UNION {{e, toUpperCase(e), Capitalized(e)} :
                                          e \in Extensions}}

InitContentType ==
    /\ InitServer
    /\ env = NoEnv /\ objects = {} /\ assets = {}
    /\ op \in {[NoCall EXCEPT !.path = p] : p \in Paths}

NextContentType == GetContentTypeCall

SpecContentType == InitContentType /\ [][NextContentType]_vars

\* ================================================================ claims
\* The edges of the lifecycle (spec 4.1).
Edges ==
    {<<"uploading", "processing">>, <<"uploading", "error">>,
     <<"processing", "ready">>, <<"processing", "error">>}

\* Reconcile applied once to a processing record: the outcome fields.
OutcomeFields == {"status", "formats", "thumbnail", "duration", "videoInfo"}

SingleApplication(jobData) ==
    ReconcilePoller([video |-> [NoVideo EXCEPT !.status = "processing"],
                     modified |-> {}], jobData, 0).doc.video

C2_ConditionalWrite ==
    [][\A id \in DOMAIN videos :
          (applied'[id] = applied[id] + 1 /\ videos[id].status # "processing")
              => videos'[id] = videos[id]]_vars

\* C3: once reconcile writes have updated a record, whatever their number
\* and interleaving, its status, formats, thumbnail, duration and videoInfo
\* are those of one application of reconcile to the job's response.
C3_Converges ==
    \A id \in DOMAIN videos :
        applied[id] >= 1 =>
            \A f \in OutcomeFields :
                videos[id][f] = SingleApplication(jobs[videos[id].jobId[1]])[f]

\* Two reconcile writes, based on reads of the same processing record, have
\* both updated it.
C3_Witness == \E id \in DOMAIN videos : applied[id] >= 2

\* C4: a second application of the completed payload to a record the first
\* application made ready leaves every field, updatedAt included, as it was.
C4_Idempotent ==
    [][\A id \in DOMAIN videos :
          (applied'[id] = applied[id] + 1 /\ applied[id] >= 1
              /\ videos[id].status = "ready")
              => videos'[id] = videos[id]]_vars

\* C5: a success response of the upload request is sent only after the
\* submission returned job id j, the record was persisted with status
\* processing and jobId j, and the temporary file was removed.
C5_DispatchBeforeResponse ==
    \A u \in IDs :
        up[u].resp = "200" =>
            /\ up[u].posted = "ok"
            /\ up[u].persisted = "processing"
            /\ up[u].doc.video.status = "processing"
            /\ up[u].doc.video.jobId = up[u].job
            /\ u \in DOMAIN videos => videos[u].jobId = up[u].job
            /\ u \notin files /\ unlinks[u] = 1

C5_Witness ==
    \E u \in IDs : up[u].resp = "200" /\ u \in DOMAIN videos /\ IsSet(up[u].job)

C10_NoCallUnlessProcessing ==
    \A q \in Queries :
        (qs[q].pc = "done" /\ qs[q].loaded \in {"uploading", "ready", "error"}) =>
            /\ ~qs[q].called
            /\ ~qs[q].wrote
            /\ qs[q].resp = qs[q].loaded
            /\ qs[q].persisted = qs[q].loaded

C10_Witness ==
    \E q \in Queries :
        qs[q].pc = "done" /\ qs[q].loaded = "ready" /\ qs[q].resp = "ready"

\* C11: the step in which an Engine status query fails changes no record and
\* issues no write: the status request answers at once, without a failure
\* code, with the status it loaded, and the sweep goes on to its next
\* document (or ends) without a save.
C11_QueryFailureNoWrite ==
    [][/\ \A q \in Queries :
            (qs[q].pc = "wait engine" /\ qs'[q].failed) =>
                /\ videos' = videos /\ applied' = applied
                /\ qs'[q].pc = "done" /\ ~qs'[q].wrote
                /\ qs'[q].resp = qs[q].loaded /\ qs'[q].resp = "processing"
       /\ \A s \in Sweeps :
            (sw[s].pc = "wait engine" /\ sw'[s] # sw[s] /\ sw'[s].failed) =>
                /\ videos' = videos /\ applied' = applied
                /\ sw'[s].pc # "wait save"
                /\ sw'[s].docs = SkipNoJob(Tail(sw[s].docs))]_vars

\* A status request has answered after its Engine query failed, and the
\* latest Engine query of a sweep has failed.
C11_Witness ==
    /\ \E q \in Queries : qs[q].pc = "done" /\ qs[q].failed /\ qs[q].resp = "processing"
    /\ \E s \in Sweeps : sw[s].failed

\* The document after is the document before with the completed payload's
\* data applied at time t: ready, one formats entry per encoded-file
\* descriptor in the payload's order with its quality, url, size and bitrate,
\* thumbnail, duration and videoInfo from the payload, updatedAt advanced to t.
CompletedApplied(before, after, data, t) ==
    /\ after.status = "ready"
    /\ Len(after.formats) = Len(data.encoded_files)
    /\ \A i \in 1..Len(data.encoded_files) :
          /\ DOMAIN after.formats[i] = {"quality", "url", "size", "bitrate"}
          /\ \A k \in DOMAIN after.formats[i] :
                after.formats[i][k] = data.encoded_files[i][k]
    /\ after.thumbnail = <<data.thumbnail_url>>
    /\ after.duration = <<data.duration>>
    /\ after.videoInfo = <<data.video_info>>
    /\ after.updatedAt = t /\ after.updatedAt >= before.updatedAt

\* In this step handler h (a status request or a sweep) received the Engine's
\* answer for the processing document it holds.
Answered(h) ==
    IF h \in Queries
    THEN qs[h].pc = "wait engine" /\ qs'[h] # qs[h] /\ ~qs'[h].failed
    ELSE sw[h].pc = "wait engine" /\ sw'[h] # sw[h] /\ ~sw'[h].failed

\* The document handler h holds, and the video it belongs to.
HeldDoc(h) == IF h \in Queries THEN qs[h].doc ELSE Head(sw[h].docs).doc
HeldId(h) == IF h \in Queries THEN qs[h].id ELSE Head(sw[h].docs).id

\* After the step handler h awaits the save of the document it holds.
Saving(h) ==
    IF h \in Queries THEN qs'[h].pc = "wait save" /\ qs'[h].id = qs[h].id
    ELSE /\ sw'[h].pc = "wait save"
         /\ Head(sw'[h].docs).id = Head(sw[h].docs).id
         /\ Tail(sw'[h].docs) = Tail(sw[h].docs)

HeldDocAfter(h) == IF h \in Queries THEN qs'[h].doc ELSE Head(sw'[h].docs).doc

\* In this step the save handler h was awaiting updated the record.
Landed(h) ==
    IF h \in Queries
    THEN qs[h].pc = "wait save" /\ qs'[h] # qs[h] /\ qs'[h].wrote
    ELSE /\ sw[h].pc = "wait save" /\ sw'[h] # sw[h]
         /\ applied'[HeldId(h)] = applied[HeldId(h)] + 1

\* The save of handler h wrote the outcome of its document to the record.
OutcomeWritten(h) ==
    /\ HeldId(h) \in DOMAIN videos'
    /\ \A f \in OutcomeFields \cup {"updatedAt"} :
          videos'[HeldId(h)][f] = HeldDoc(h).video[f]

\* C12 (as claimed): whenever a handler receives a payload whose status is
\* completed for a processing record, the record becomes ready with the
\* payload's formats, thumbnail, duration and videoInfo, and updatedAt
\* advances.
C12_CompletedMakesReady ==
    [][\A h \in Queries \cup Sweeps :
          LET jobData == jobs[HeldDoc(h).video.jobId[1]] IN
          /\ (Answered(h) /\ jobData.status = "completed") =>
                /\ Saving(h)
                /\ IsSet(jobData.data) =>
                      CompletedApplied(HeldDoc(h).video, HeldDocAfter(h).video,
                                       jobData.data[1], now)
          /\ (Landed(h) /\ HeldDoc(h).video.status = "ready") => OutcomeWritten(h)]_vars

\* C12 (amended): whenever a handler receives a payload whose status is
\* completed and which carries its data for a processing record, its
\* document becomes ready, formats holds one entry per encoded-file
\* descriptor in the payload's order with that descriptor's quality, url,
\* size and bitrate, thumbnail, duration and videoInfo are set from the
\* payload, updatedAt advances to the time of the application, and a save is
\* issued; a save that succeeds writes exactly these values to the record.
C12_CompletedWithDataMakesReady ==
    [][\A h \in Queries \cup Sweeps :
          LET jobData == jobs[HeldDoc(h).video.jobId[1]] IN
          /\ (Answered(h) /\ jobData.status = "completed" /\ IsSet(jobData.data)) =>
                /\ HeldDoc(h).video.status = "processing"
                /\ Saving(h)
                /\ CompletedApplied(HeldDoc(h).video, HeldDocAfter(h).video,
                                    jobData.data[1], now)
          /\ (Landed(h) /\ HeldDoc(h).video.status = "ready") => OutcomeWritten(h)]_vars

\* A reconcile write has made a record ready with one format per encoded
\* file of a payload of the longest list.
C12_Witness ==
    \E id \in DOMAIN videos :
        /\ applied[id] >= 1 /\ videos[id].status = "ready"
        /\ Len(videos[id].formats) = MaxFiles
        /\ videos[id].formats[MaxFiles].quality = <<"quality", MaxFiles>>

\* C13: whenever a handler receives a payload whose status is error for a
\* processing record, its document gets status error and updatedAt the
\* current time, formats stays empty, no other field changes and a save is
\* issued; a save that succeeds leaves the record in error with that
\* updatedAt and empty formats.
C13_ErrorMakesError ==
    [][\A h \in Queries \cup Sweeps :
          LET jobData == jobs[HeldDoc(h).video.jobId[1]] IN
          /\ (Answered(h) /\ jobData.status = "error") =>
                /\ HeldDoc(h).video.status = "processing"
                /\ Saving(h)
                /\ HeldDocAfter(h).video =
                      [HeldDoc(h).video EXCEPT !.status = "error", !.updatedAt = now]
                /\ HeldDocAfter(h).video.formats = <<>>
                /\ "formats" \notin HeldDocAfter(h).modified
          /\ (Landed(h) /\ HeldDoc(h).video.status = "error") =>
                /\ OutcomeWritten(h)
                /\ videos'[HeldId(h)].formats = <<>>]_vars

\* One reconcile write has put a record in error and set its updatedAt.
C13_Witness ==
    \E id \in DOMAIN videos :
        /\ applied[id] = 1 /\ videos[id].status = "error"
        /\ videos[id].updatedAt > videos[id].createdAt

\* C16: axios.post is called at most once per record, by the upload handler
\* right after the insert; a failed submission is not repeated, and no step
\* of a status request or of a sweep submits a job or creates one.
C16_SubmitAtMostOnce ==
    [][/\ \A u \in IDs :
            /\ up'[u].posts <= 1
            /\ up'[u].posts # up[u].posts =>
                  up[u].pc = "created" /\ up[u].posts = 0 /\ up[u].posted = "no"
       /\ DOMAIN jobs' # DOMAIN jobs =>
            \E u \in IDs : up'[u].posts = up[u].posts + 1 /\ up'[u].posted = "ok"
       /\ (qs' # qs \/ sw' # sw) =>
            /\ DOMAIN jobs' = DOMAIN jobs
            /\ \A u \in IDs : up'[u].posts = up[u].posts]_vars

\* A failed submission has been answered, and a reconcile write has updated
\* another record.
C16_Witness ==
    /\ \E u \in IDs : up[u].pc = "done" /\ up[u].posted = "failed" /\ up[u].posts = 1
    /\ \E id \in DOMAIN videos : applied[id] >= 1

\* The record of video id is processing with a job id.
Processing(id) ==
    /\ id \in DOMAIN videos
    /\ videos[id].status = "processing" /\ IsSet(videos[id].jobId)

\* The Engine reports the job of the processing record id as finished with
\* an outcome reconcile applies: error, or completed with its data.
Reported(id) ==
    /\ Processing(id)
    /\ LET jobData == jobs[videos[id].jobId[1]] IN
          \/ jobData.status = "error"
          \/ jobData.status = "completed" /\ IsSet(jobData.data)

\* C14: while the Engine never answers the status query for one processing
\* record, every other processing record whose job the Engine reports as
\* completed or error is eventually moved to ready or error by the Poller.
C14_HangDoesNotStall ==
    \A b \in IDs :
        (/\ Reported(b)
         /\ \E a \in IDs \ {b} : Processing(a) /\ jobs[videos[a].jobId[1]] = JobHung)
            ~> (b \in DOMAIN videos /\ videos[b].status \in {"ready", "error"})

\* Every run that starts in this step has loaded every processing record.
EveryRunLoadsAll ==
    \A s \in Sweeps :
        (sw[s].pc = "idle" /\ sw'[s].pc # "idle") =>
            \A id \in IDs :
                Processing(id) =>
                    \E i \in 1..Len(sw'[s].docs) : sw'[s].docs[i].id = id

Apis == [i \in 1..Len(op.calls) |-> op.calls[i].api]

\* C17: uploadFile delegates to S3 when the access key id and the bucket are
\* configured, whether or not Cloudinary is, and then makes no Cloudinary
\* call; otherwise to Cloudinary when its cloud name is configured;
\* otherwise it returns the failure 'No storage provider configured' and
\* calls no provider.
C17_ProviderSelection ==
    op.fn = "uploadFile" =>
        /\ S3Configured =>
              /\ op.delegated = <<"uploadToS3">>
              /\ \A i \in 1..Len(op.calls) : Apis[i] = "s3.upload"
        /\ (~S3Configured /\ CloudinaryConfigured) =>
              /\ op.delegated = <<"uploadToCloudinary">>
              /\ \A i \in 1..Len(op.calls) : Apis[i] = "cloudinary.upload"
        /\ (~S3Configured /\ ~CloudinaryConfigured) =>
              /\ op.delegated = <<>> /\ op.calls = <<>>
              /\ op.pc = "done"
              /\ op.result = <<Failure("No storage provider configured")>>

\* With both providers configured an upload has succeeded on S3.
C17_Witness ==
    /\ op.fn = "uploadFile" /\ op.pc = "done"
    /\ S3Configured /\ CloudinaryConfigured
    /\ op.result[1].success /\ op.calls = <<[api |-> "s3.upload", ok |-> TRUE]>>

\* C18: when the put of the selected provider is rejected, uploadFile has
\* returned a failure result carrying that rejection, and has called no
\* other provider.
C18_NoFailover ==
    (op.fn = "uploadFile" /\ \E i \in 1..Len(op.calls) : ~op.calls[i].ok) =>
        /\ Len(op.calls) = 1 /\ Len(op.delegated) = 1
        /\ op.pc = "done"
        /\ op.result[1].success = FALSE
        /\ op.result[1].error =
              IF Apis[1] = "s3.upload" THEN "s3.upload rejected"
              ELSE "cloudinary upload rejected"

\* With both providers configured the upload to S3 was rejected.
C18_Witness ==
    /\ op.fn = "uploadFile" /\ op.pc = "done"
    /\ S3Configured /\ CloudinaryConfigured
    /\ op.calls = <<[api |-> "s3.upload", ok |-> FALSE]>>

\* C19: deleteFile calls the delete of every configured provider, S3 first,
\* whatever the outcome of the first delete, and its results hold one
\* outcome per configured provider, in the order of the calls.
C19_DeleteEveryProvider ==
    (op.fn = "deleteFile" /\ op.pc = "done") =>
        LET expected ==
                (IF S3Configured THEN <<"s3.deleteObject">> ELSE <<>>)
                \o (IF CloudinaryConfigured THEN <<"cloudinary.destroy">> ELSE <<>>) IN
        /\ Apis = expected
        /\ Len(op.result[1].results) = Len(expected)
        /\ \A i \in 1..Len(expected) :
              op.result[1].results[i].success = op.calls[i].ok

\* Both deletes were called: after a rejected delete from S3 in one call,
\* after a successful one in another.
C19_Witness ==
    /\ op.fn = "deleteFile" /\ op.pc = "done"
    /\ Apis = <<"s3.deleteObject", "cloudinary.destroy">>
    /\ ~op.calls[1].ok /\ ~op.calls[2].ok

\* C20: the success of deleteFile's result is true if and only if the delete
\* of at least one configured provider succeeded.
C20_AggregateSuccess ==
    (op.fn = "deleteFile" /\ op.pc = "done") =>
        (op.result[1].success <=> \E i \in 1..Len(op.calls) : op.calls[i].ok)

\* The delete from S3 was rejected, the delete from Cloudinary succeeded and
\* the aggregate is success.
C20_Witness ==
    /\ op.fn = "deleteFile" /\ op.pc = "done"
    /\ Apis = <<"s3.deleteObject", "cloudinary.destroy">>
    /\ ~op.calls[1].ok /\ op.calls[2].ok
    /\ op.result[1].success

C22_SignUnsupported ==
    (op.fn = "getSignedUrl" /\ op.pc = "done"
        /\ ~S3Configured /\ CloudinaryConfigured) =>
        /\ op.calls = <<>>
        /\ op.result = <<[thrown |-> "CapabilityUnsupported"]>>

\* The file name of the path has an extension: it runs from position d, the
\* last '.' of the last portion of the path and not that portion's first
\* character, to position n, the end of that portion.
ExtensionAt(path, d, n) ==
    /\ 1 < d /\ d <= n /\ n <= Len(path)
    /\ path[n] # "/" /\ \A i \in (n + 1)..Len(path) : path[i] = "/"
    /\ path[d] = "." /\ \A i \in (d + 1)..n : path[i] \notin {".", "/"}
    /\ path[d - 1] # "/"

\* The extensions the table is claimed to cover.
Covered ==
    {<<"m", "p", "4">>, <<"a", "v", "i">>, <<"m", "o", "v">>, <<"w", "m", "v">>,
     <<"f", "l", "v">>, <<"w", "e", "b", "m">>, <<"m", "k", "v">>, <<"j", "p", "g">>,
     <<"j", "p", "e", "g">>, <<"p", "n", "g">>, <<"g", "i", "f">>}

\* The call returned the type of the table for a covered extension, written
\* in any case, and the generic type for any other path.
MappedByExtension ==
    LET path == op.path
        found == {<<d, n>> \in (1..Len(path)) \X (1..Len(path)) :
                     /\ ExtensionAt(path, d, n)
                     /\ toLowerCase(SubSeq(path, d + 1, n)) \in Covered} IN
    IF found = {} THEN op.result = <<"application/octet-stream">>
    ELSE \A e \in found :
            LET name == toLowerCase(SubSeq(path, e[1] + 1, e[2])) IN
            /\ op.result = <<contentTypes[<<".">> \o name]>>
            /\ op.result # <<"application/octet-stream">>
            /\ name = <<"m", "p", "4">> => op.result = <<"video/mp4">>

\* C23 (as claimed): getContentType maps the extension through the table,
\* whatever its case, returns the generic octet-stream type for every other
\* path, and getContentType(".MP4") is video/mp4.
C23_ContentType ==
    (op.fn = "getContentType" /\ op.pc = "done") =>
        /\ MappedByExtension
        /\ op.path = <<".", "M", "P", "4">> => op.result = <<"video/mp4">>

\* C23 (amended): getContentType maps the extension of the file name through
\* the table, whatever its case, so "a.MP4" gives video/mp4, and returns the
\* generic octet-stream type for every other path: one with another
\* extension, and one without extension, such as the bare name ".MP4".
C23_ContentTypeOfFileName ==
    (op.fn = "getContentType" /\ op.pc = "done") =>
        /\ MappedByExtension
        /\ op.path = <<"a", ".", "M", "P", "4">> => op.result = <<"video/mp4">>
        /\ op.path = <<".", "M", "P", "4">> => op.result = <<"application/octet-stream">>

\* The type of a file whose extension is written in upper case was asked.
C23_Witness ==
    /\ op.fn = "getContentType" /\ op.pc = "done"
    /\ op.path = <<"a", ".", "M", "P", "4">> /\ op.result = <<"video/mp4">>

\* The fields a metadata update may change.
Metadata == {"title", "description", "updatedAt"}

\* C24: no step of a metadata update request adds or removes a record or
\* changes another record, and its save changes at most title, description
\* and updatedAt of its record: every other field keeps the value persisted
\* just before the save, whatever the request had loaded, so a reconcile
\* result written between the load and the save is kept.
C24_UpdateFrame ==
    [][put' # put =>
          /\ DOMAIN videos' = DOMAIN videos
          /\ \A id \in DOMAIN videos :
                /\ id # put'.id => videos'[id] = videos[id]
                /\ \A f \in Fields \ Metadata : videos'[id][f] = videos[id][f]
          /\ put.pc # "wait save" => videos' = videos
          /\ (put'.pc = "done" /\ ~put'.wrote) => videos' = videos]_vars

\* An update that loaded the record while it was processing has saved its
\* title after a reconcile write made the record ready, and the record is
\* ready.
C24_Witness ==
    /\ put.pc = "done" /\ put.wrote
    /\ put.doc.video.status = "processing"
    /\ put.id \in DOMAIN videos
    /\ videos[put.id].status = "ready" /\ applied[put.id] >= 1
    /\ videos[put.id].title = "t2"

\* C25: no step of a delete request calls the storage layer or touches a
\* record other than the one asked for; the request is answered 'deleted'
\* exactly when deleteOne ran, and then that record, and no other, is gone;
\* a request for an id without record, once the lookup has answered, is
\* answered 404 and changes nothing.
C25_DeleteFrame ==
    [][del' # del =>
          /\ storage' = storage
          /\ DOMAIN videos' \subseteq DOMAIN videos
          /\ \A id \in DOMAIN videos \ {del'.id} :
                id \in DOMAIN videos' /\ videos'[id] = videos[id]
          /\ del'.resp = "200" =>
                /\ del.pc = "wait delete"
                /\ DOMAIN videos' = DOMAIN videos \ {del'.id}
          /\ del'.resp # "200" => videos' = videos
          /\ (del.pc # "wait delete" /\ del'.id \notin DOMAIN videos) =>
                del'.resp \in {"404", "500"}
          /\ del'.resp = "404" => del'.id \notin DOMAIN videos]_vars

\* A record that an upload created was deleted, and a second delete request
\* for its id has been answered 404.
C25_Witness ==
    /\ del.pc = "done" /\ del.resp = "404"
    /\ up[del.id].resp = "200"
    /\ del.id \notin DOMAIN videos

\* C26: in every reachable state every record's updatedAt is greater than or
\* equal to its createdAt.
C26_UpdatedAfterCreated ==
    \A id \in DOMAIN videos : videos[id].updatedAt >= videos[id].createdAt

\* A metadata update that read the clock before a reconcile did has saved
\* after it: updatedAt went back to the update's time, later than createdAt.
C26_Witness ==
    /\ put.pc = "done" /\ put.wrote /\ put.id \in DOMAIN videos
    /\ put.doc.video.status = "processing"
    /\ videos[put.id].status \in {"ready", "error"} /\ applied[put.id] >= 1
    /\ videos[put.id].updatedAt = put.doc.video.updatedAt
    /\ videos[put.id].updatedAt > videos[put.id].createdAt
    /\ videos[put.id].updatedAt < now

\* C27: the write of the upload handler that moves a record from uploading
\* to processing or to error sets the record's updatedAt to the current time.
C27_DispatchStampsUpdatedAt ==
    [][\A u \in DOMAIN videos \cap DOMAIN videos' :
          (/\ up'[u] # up[u]
           /\ videos[u].status = "uploading"
           /\ videos'[u].status \in {"processing", "error"})
              => videos'[u].updatedAt = now]_vars

\* Upload request u has inserted its record.
Created(u) == up[u].doc # NoDoc

\* C28: once an upload request that inserted a record has been answered, the
\* status that was persisted for the record when it answered is processing
\* or error, never uploading.
C28_NeverLeftUploading ==
    \A u \in IDs :
        (up[u].pc = "done" /\ Created(u) /\ up[u].persisted # "none") =>
            up[u].persisted \in {"processing", "error"}

\* C29: when the submission returned a job id, the request is not answered
\* as a processing failure and the upload handler does not set the record
\* to error.
C29_ErrorOnlyIfSubmissionFailed ==
    \A u \in IDs :
        up[u].posted = "ok" =>
            /\ up[u].resp # "500 processing"
            /\ (u \in DOMAIN videos /\ applied[u] = 0) => videos[u].status # "error"

\* C30: the step in which a handler receives a payload whose status is
\* neither completed nor error changes no record, reads no clock and issues
\* no save: the status request answers processing at once and the sweep goes
\* on to its next document (or ends).
C30_RunningChangesNothing ==
    [][\A h \in Queries \cup Sweeps :
          LET jobData == jobs[HeldDoc(h).video.jobId[1]] IN
          (Answered(h) /\ jobData.status \notin {"completed", "error"}) =>
              /\ videos' = videos /\ applied' = applied /\ now' = now
              /\ ~Saving(h)
              /\ IF h \in Queries
                 THEN /\ qs'[h].pc = "done" /\ ~qs'[h].wrote
                      /\ qs'[h].resp = "processing"
                      /\ qs'[h].persisted = Persisted(videos, qs[h].id)
                 ELSE /\ sw'[h].pc # "wait save"
                      /\ sw'[h].docs = SkipNoJob(Tail(sw[h].docs))]_vars

\* A status request has been answered processing after the Engine reported
\* the job as still running; the record is as the upload left it.
C30_Witness ==
    \E q \in Queries :
        /\ qs[q].pc = "done" /\ qs[q].called /\ ~qs[q].failed /\ ~qs[q].wrote
        /\ qs[q].resp = "processing"
        /\ qs[q].id \in DOMAIN videos
        /\ videos[qs[q].id].status = "processing" /\ applied[qs[q].id] = 0
        /\ jobs[videos[qs[q].id].jobId[1]] = JobRunning
        /\ videos[qs[q].id].updatedAt = videos[qs[q].id].createdAt

\* The videos a sweep that starts now queries the Engine for.
SweepQueries ==
    LET docs == FindProcessing(IDs) IN
    {docs[i].id : i \in {k \in 1..Len(docs) : IsSet(docs[k].doc.video.jobId)}}

\* In this step the Engine query of handler h failed.
QueryFailed(h) ==
    IF h \in Queries THEN qs[h].pc = "wait engine" /\ qs'[h].failed
    ELSE sw[h].pc = "wait engine" /\ sw'[h] # sw[h] /\ sw'[h].failed

\* C31: the status route and the Poller treat a record alike.  A status
\* request queries the Engine for a record exactly when a sweep starting at
\* that moment would; on an answer (completed with or without data, error,
\* running) either handler changes its document, and decides to save, as
\* the reconcile of the status route and as the reconcile of the Poller
\* prescribe, which agree; a save that lands writes the document's modified
\* paths, for both alike; a failed query changes no record.
C31_SameReconcile ==
    [][/\ \A q \in Queries :
            (qs[q].pc \in {"idle", "done"} /\ qs'[q] # qs[q]
                /\ qs'[q].id \in DOMAIN videos /\ qs'[q].loaded # "none") =>
                (qs'[q].pc = "wait engine" <=> qs'[q].id \in SweepQueries)
       /\ \A h \in Queries \cup Sweeps :
            /\ Answered(h) =>
                  LET jobData == jobs[HeldDoc(h).video.jobId[1]]
                      onDemand == ReconcileOnDemand(HeldDoc(h), jobData, now)
                      poller == ReconcilePoller(HeldDoc(h), jobData, now) IN
                  /\ onDemand = poller
                  /\ Saving(h) <=> poller.save
                  /\ Saving(h) => HeldDocAfter(h) = poller.doc
                  /\ ~Saving(h) => videos' = videos
            /\ Landed(h) =>
                  videos' = [videos EXCEPT ![HeldId(h)] = SaveResult(HeldId(h), HeldDoc(h))]
            /\ QueryFailed(h) => videos' = videos /\ ~Saving(h)]_vars

\* The same record has been updated by the save of a status request and by
\* the save of a sweep.
C31_Witness ==
    \E q \in Queries :
        /\ qs[q].pc = "done" /\ qs[q].wrote
        /\ applied[qs[q].id] >= 2

\* C32: a sweep starts an Engine query only for a record that is persisted
\* as processing with a job id at that moment, and a save of a sweep updates
\* a record only while its persisted status is processing.
C32_SweepOnlyProcessing ==
    [][\A s \in Sweeps :
          /\ (sw'[s] # sw[s] /\ sw'[s].pc = "wait engine") =>
                LET id == Head(sw'[s].docs).id IN
                /\ id \in DOMAIN videos'
                /\ videos'[id].status = "processing" /\ IsSet(videos'[id].jobId)
          /\ Landed(s) => videos[HeldId(s)].status = "processing"]_vars

\* In this step the save sweep s was awaiting threw.
SaveFailed(s) ==
    /\ sw[s].pc = "wait save" /\ sw'[s] # sw[s]
    /\ applied'[HeldId(s)] = applied[HeldId(s)]

\* C33: when the Engine query or the save for one document of a sweep fails,
\* the sweep goes on in the same run with all the remaining documents it
\* loaded: the next of them is queried at once, and the run ends only when
\* none is left.
C33_FailureDoesNotAbort ==
    [][\A s \in Sweeps :
          (QueryFailed(s) \/ SaveFailed(s)) =>
              /\ sw'[s].docs = Tail(sw[s].docs)
              /\ sw'[s].pc = IF Tail(sw[s].docs) = <<>> THEN "idle" ELSE "wait engine"
              /\ videos' = videos]_vars

\* A sweep queries its second document after the query for the first failed.
C33_Witness ==
    \E s \in Sweeps :
        /\ sw[s].pc = "wait engine" /\ sw[s].failed
        /\ Len(sw[s].docs) = 1
        /\ \E id \in DOMAIN videos :
              id < Head(sw[s].docs).id /\ videos[id].status = "processing"

\* C34: a reconcile result reaches a record in one write: in every reachable
\* state, the states in the middle of a sweep included, a persisted record
\* whose status is ready carries the formats, thumbnail, duration and
\* videoInfo of the completed payload of its job.
C34_ReadyIsComplete ==
    \A id \in DOMAIN videos :
        videos[id].status = "ready" =>
            LET jobData == jobs[videos[id].jobId[1]] IN
            /\ jobData.status = "completed" /\ IsSet(jobData.data)
            /\ videos[id].formats = MapFormats(jobData.data[1].encoded_files)
            /\ videos[id].thumbnail = <<jobData.data[1].thumbnail_url>>
            /\ videos[id].duration = <<jobData.data[1].duration>>
            /\ videos[id].videoInfo = <<jobData.data[1].video_info>>

\* A sweep is in the middle of its run: its first record is ready with all
\* the formats of its payload, its second is still being handled.
C34_Witness ==
    \E s \in Sweeps :
        /\ sw[s].pc \in {"wait engine", "wait save"}
        /\ Len(sw[s].docs) = 1
        /\ \E id \in DOMAIN videos :
              /\ id < Head(sw[s].docs).id
              /\ videos[id].status = "ready" /\ applied[id] = 1
              /\ Len(videos[id].formats) = MaxFiles

C36_ResponseIsPersisted ==
    \A q \in Queries :
        (qs[q].pc = "done" /\ qs[q].resp \in {"ready", "error"}) =>
            qs[q].persisted # "processing"

\* C37: a record enters the store only in the step in which the upload
\* handler that creates it inserts it, and that handler inserts once; so a
\* deleted record never comes back, whatever a sweep, a status request, a
\* metadata update or the upload handler saves after the delete.
C37_NeverRecreated ==
    [][\A id \in IDs :
          /\ (id \notin DOMAIN videos /\ id \in DOMAIN videos') =>
                up[id].pc = "idle" /\ up'[id].pc = "created"
          /\ up[id].pc # "idle" => up'[id].pc # "idle"]_vars

\* A status request loaded the record, the record was deleted, the request's
\* save came after the delete: the request is answered and the record is
\* still gone.
C37_Witness ==
    \E q \in Queries :
        /\ qs[q].pc = "done" /\ qs[q].called /\ ~qs[q].wrote
        /\ qs[q].resp \in {"ready", "error"}
        /\ qs[q].persisted = "none"
        /\ del.pc = "done" /\ del.resp = "200" /\ del.id = qs[q].id
        /\ qs[q].id \notin DOMAIN videos

\* C38: once an upload request has been answered, with whatever response,
\* the temporary file stored for it is no longer on disk.
C38_TemporaryFileRemoved ==
    \A u \in IDs : up[u].pc = "done" => u \notin files
====
